---- MODULE Spec2Model ----
(***************************************************************************)
(* A model of the seamless-texture-maker core: ResultCache                 *)
(* (app/core/cache.py), SeamlessProcessor (app/core/seamless.py) and the   *)
(* two worker lanes of the main window (app/gui/main_window.py).           *)
(*                                                                         *)
(* The specifications share the variables:                                 *)
(*   SpecCache   - a caller driving ResultCache.get/set/clear directly,    *)
(*                 holding and mutating the arrays it passes and receives; *)
(*   Spec        - one thread calling SeamlessProcessor.load_image,        *)
(*                 set_parameters and process;                             *)
(*   SpecThreads - the UI thread, the PreviewThread worker and the         *)
(*                 ProcessingThread job, interleaved statement by          *)
(*                 statement (SpecThreadsWait: with the UI thread going    *)
(*                 on when it can);                                        *)
(*   SpecKey, SpecOffset, SpecOverlap, SpecSplat, SpecSeed, SpecParams,    *)
(*   SpecBlend, SpecHit - calls of single functions and methods, the       *)
(*                 arguments in fin and the results in fout.               *)
(***************************************************************************)
EXTENDS Integers, Sequences, FiniteSets, TLC

VARIABLES
    \* ResultCache
    cache,            \* self.cache: key -> reference of the stored array
    access_order,     \* self.access_order: list of keys, oldest first
    heap,             \* the arrays that exist: reference -> contents
    \* the caller of SpecCache
    held,             \* references of the arrays the caller holds
    snapshot,         \* history: key -> contents given to the latest set
    recency,          \* history: stored keys by latest insertion or get hit
    insert_order,     \* history: stored keys by insertion
    lastOp,           \* history: what the latest cache call did
    \* SeamlessProcessor
    original_image,   \* self._original_image: an image, 0 for None
    preview_image,    \* self._preview_image: the image it was resized from, 0 for None
    processed_image,  \* self._processed_image: <<>> for None, or <<array contents>>
    image_hash,       \* self._image_hash, 0 for None
    method,           \* self.method
    blend_strength,   \* self.blend_strength (the numeric parameter of the strategies)
    \* threads
    fr,               \* thread -> the frame of the call it is executing
    inCache,          \* threads inside ResultCache.get or ResultCache.set
    \* PreviewThread
    pt_params,        \* self.params (NoKw for None)
    restart,          \* self._restart
    wpc,              \* where the worker is in run ("off": not running)
    \* MainWindow
    processing_thread, \* self.processing_thread: 0 for None, or the job created last
    job,              \* ProcessingThread object -> "new", "running", "returned", "raised"
    \* history of the lanes
    reqs,             \* number of request calls made
    fullreqs,         \* number of _process_texture calls that passed the image test
    emitted,          \* the latest result_ready emission, <<>> before the first: the
                      \* params it was computed for, the params of the latest request
                      \* then, and whether a request call was in progress
    served,           \* the latest request's parameters have been emitted since it
    \* the pure functions
    fin,              \* the arguments of the call, <<>> when none is made
    fout              \* what the call returned, <<>> before it returns

cacheVars == <<cache, access_order, heap>>
callerVars == <<held, snapshot, recency, insert_order, lastOp>>
procVars == <<original_image, preview_image, processed_image, image_hash, method, blend_strength>>
threadVars == <<pt_params, restart, wpc, processing_thread, job, reqs, fullreqs, emitted, served>>
pureVars == <<fin, fout>>
vars == <<cacheVars, callerVars, procVars, fr, inCache, threadVars, pureVars>>

----------------------------------------------------------------------------
(* Bounds and value sets *)

\* ResultCache(max_size=50) in SeamlessProcessor.__init__, scaled down.
max_size == 2

Methods == {"standard", "overlap", "splat"}

\* blend_strength in units of 1/10000: 5000 (the default) and 5004, which
\* round to the same third decimal.
StrengthVals == {5000, 5004}

\* round(x, 3) for x in units of 1/10000, result in units of 1/1000.
\* (No value of StrengthVals is a tie.)
Round3(x) == (x + 5) \div 10

\* Source images, named by their shape and strided pixel sample.
Images == {1, 2}

\* hash_image: md5 of the shape and the strided sample (never 0, which
\* stands for None).
hash_image(img) == img

ImageHashes == {hash_image(i) : i \in Images}

\* The dict _get_cache_params builds.
CacheParams == [method : Methods, blend_strength : {Round3(s) : s \in StrengthVals}]

\* ResultCache._hash_params and the image-hash prefix: the key is the md5 of
\* the sorted items, prefixed by the image hash when that is truthy
\* (image_hash 0 stands for None: no prefix).
hash_params(params) == <<params.method, params.blend_strength>>

CacheKey(params, ih) == <<ih, hash_params(params)>>

\* Contents of an image array a synthesis returns: which strategy made it,
\* from which image at which resolution, with which strength; px is a pixel
\* a holder of the array may overwrite in place.
Arrays == [method : Methods, blend_strength : StrengthVals, image : Images,
           preview : BOOLEAN, px : 0..1]

MethodNum(m) == CASE m = "standard" -> 0 [] m = "overlap" -> 1 [] m = "splat" -> 2

\* References of arrays. The caller of SpecCache has two array variables:
\* ArgRef, the array it passes to set, and RetRef, the array the latest get
\* returned. The array a process call is returning is ProcRef. The copy that
\* set makes for key is EntryRef(key): a cache entry's array is owned by the
\* cache alone.
ArgRef == 1

RetRef == 2

ProcRef == 0

Slots == {ArgRef, RetRef}

EntryRef(key) == 3 + key[1] * 3000 + MethodNum(key[2][1]) * 1000 + key[2][2]

----------------------------------------------------------------------------
(* Lists and the heap *)

RECURSIVE Remove(_, _)
\* list.remove(x): the list without its first x.
Remove(s, x) ==
    IF s = <<>> THEN <<>>
    ELSE IF Head(s) = x THEN Tail(s)
    ELSE <<Head(s)>> \o Remove(Tail(s), x)

InSeq(s, x) == \E i \in 1..Len(s) : s[i] = x

\* References still reachable: the cache's entries and the caller's arrays.
Live(c, hd) == {c[k] : k \in DOMAIN c} \cup hd

Collect(h, c, hd) == [r \in (DOMAIN h \cap Live(c, hd)) |-> h[r]]

----------------------------------------------------------------------------
(* ResultCache *)

EmptyMap == [k \in {} |-> 0]

\* A get that leaves the access order alone on a hit (first in, first out).
get_access_order_norefresh(ao, key) == ao

\* get, lines 41-43: a hit moves the key to the end of access_order.
get_access_order(ao, key) == Append(Remove(ao, key), key)

\* get, line 44: return self.cache[key].copy(); stored is the entry's array,
\* fresh the newly allocated copy.
get_returned(stored, fresh) == fresh

\* A set that evicts only once the cache is over capacity.
set_evicted_late(c, ao, key) ==
    IF Cardinality(DOMAIN c) > max_size /\ key \notin DOMAIN c /\ ao # <<>>
    THEN {Head(ao)}
    ELSE {}

\* set, lines 62-65: the keys evicted before key is stored.
set_evicted(c, ao, key) ==
    IF Cardinality(DOMAIN c) >= max_size /\ key \notin DOMAIN c /\ ao # <<>>
    THEN {Head(ao)}
    ELSE {}

\* A set that stores the caller's array itself.
set_stored_alias(result, fresh) == result

\* set, line 67: self.cache[key] = result.copy(); result is the caller's
\* array, fresh the newly allocated copy.
set_stored(result, fresh) == fresh

\* set, lines 64 and 68-69: pop(0) on eviction, append when the key is new.
set_access_order(ao, ev, key) ==
    LET a == IF ev # {} THEN Tail(ao) ELSE ao
    IN  IF InSeq(a, key) THEN a ELSE Append(a, key)

\* ResultCache.get on (c, ao, h): whether it hit, the new access order, the
\* heap with the returned copy (at reference fresh) in it and the reference
\* returned.
ResultCache_get(c, ao, h, key, fresh) ==
    IF key \in DOMAIN c
    THEN [hit |-> TRUE,
          access_order |-> get_access_order(ao, key),
          heap |-> [r \in DOMAIN h \cup {fresh} |-> IF r = fresh THEN h[c[key]] ELSE h[r]],
          ret |-> {get_returned(c[key], fresh)}]
    ELSE [hit |-> FALSE, access_order |-> ao, heap |-> h, ret |-> {}]

\* ResultCache.set on (c, ao, h) with the caller's array result.
ResultCache_set(c, ao, h, key, result) ==
    LET ev == set_evicted(c, ao, key)
        fresh == EntryRef(key)
        ref == set_stored(result, fresh)
    IN  [cache |-> [k \in (DOMAIN c \ ev) \cup {key} |-> IF k = key THEN ref ELSE c[k]],
         access_order |-> set_access_order(ao, ev, key),
         heap |-> [r \in DOMAIN h \cup {fresh} |-> IF r = fresh THEN h[result] ELSE h[r]]]

\* ResultCache.clear.
ResultCache_clear == [cache |-> EmptyMap, access_order |-> <<>>]

----------------------------------------------------------------------------
(* SpecCache: a caller of ResultCache *)

\* The (params, image_hash) pairs the caller uses, one more than the cache
\* holds; image_hash 0 is None.
AllCallerKeys == <<CacheKey([method |-> "standard", blend_strength |-> 200], 1),
                   CacheKey([method |-> "overlap", blend_strength |-> 500], 1),
                   CacheKey([method |-> "standard", blend_strength |-> 200], 0),
                   CacheKey([method |-> "splat", blend_strength |-> 200], 1),
                   CacheKey([method |-> "splat", blend_strength |-> 500], 2),
                   CacheKey([method |-> "overlap", blend_strength |-> 200], 2)>>

CallerKeys == {AllCallerKeys[i] : i \in 1..(max_size + 1)}

\* The array the caller makes.
CallerArray == [method |-> "standard", blend_strength |-> 5000, image |-> 1, preview |-> TRUE, px |-> 0]

NoKey == CacheKey([method |-> "standard", blend_strength |-> 0], 0)

NoOp == [op |-> "none", key |-> NoKey, removed |-> {}, expected |-> {}, fifo |-> {}]

OldestOf(s) == IF s = <<>> THEN {} ELSE {Head(s)}

RECURSIVE Without(_, _)
\* The list s without the keys of ks.
Without(s, ks) ==
    IF s = <<>> THEN <<>>
    ELSE IF Head(s) \in ks THEN Without(Tail(s), ks)
    ELSE <<Head(s)>> \o Without(Tail(s), ks)

InitCache ==
    /\ cache = EmptyMap
    /\ access_order = <<>>
    /\ heap = EmptyMap

InitCaller ==
    /\ held = {}
    /\ snapshot = EmptyMap
    /\ recency = <<>>
    /\ insert_order = <<>>
    /\ lastOp = NoOp

\* The caller makes the array it passes to set.
NewArray ==
    /\ ArgRef \notin held
    /\ held' = held \cup {ArgRef}
    /\ heap' = [x \in DOMAIN heap \cup {ArgRef} |-> IF x = ArgRef THEN CallerArray ELSE heap[x]]
    /\ UNCHANGED <<cache, access_order, snapshot, recency, insert_order, lastOp>>

\* The caller overwrites a pixel of an array it holds, in place.
MutateArray(r) ==
    /\ r \in held
    /\ heap' = [heap EXCEPT ![r].px = 1 - @]
    /\ UNCHANGED <<cache, access_order, held, snapshot, recency, insert_order, lastOp>>

\* cache.set(params, result, image_hash), key being the pair's key
CallSet(key, result) ==
    /\ result = ArgRef
    /\ result \in held
    /\ LET res == ResultCache_set(cache, access_order, heap, key, result)
           gone == DOMAIN cache \ DOMAIN res.cache
       IN  /\ cache' = res.cache
           /\ access_order' = res.access_order
           /\ heap' = Collect(res.heap, res.cache, held)
           /\ snapshot' = [k \in DOMAIN res.cache |-> IF k = key THEN heap[result] ELSE snapshot[k]]
           /\ recency' = IF key \in DOMAIN cache THEN recency
                         ELSE Append(Without(recency, gone), key)
           /\ insert_order' = IF key \in DOMAIN cache THEN insert_order
                              ELSE Append(Without(insert_order, gone), key)
           /\ lastOp' = [op |-> "set", key |-> key, removed |-> gone,
                         expected |-> IF key \notin DOMAIN cache
                                         /\ Cardinality(DOMAIN cache) = max_size
                                      THEN OldestOf(recency) ELSE {},
                         fifo |-> OldestOf(insert_order)]
    /\ UNCHANGED held

\* cache.get(params, image_hash), key being the pair's key
CallGet(key) ==
    LET hit == key \in DOMAIN cache
        res == ResultCache_get(cache, access_order, heap, key, RetRef)
    IN  /\ access_order' = res.access_order
        /\ held' = held \cup res.ret
        /\ heap' = Collect(res.heap, cache, held')
        /\ recency' = IF hit THEN Append(Remove(recency, key), key) ELSE recency
        /\ lastOp' = [NoOp EXCEPT !.op = IF hit THEN "hit" ELSE "miss", !.key = key]
        /\ UNCHANGED <<cache, snapshot, insert_order>>

\* cache.clear()
CallClear ==
    /\ cache' = ResultCache_clear.cache
    /\ access_order' = ResultCache_clear.access_order
    /\ heap' = Collect(heap, cache', held)
    /\ snapshot' = EmptyMap
    /\ recency' = <<>>
    /\ insert_order' = <<>>
    /\ lastOp' = [NoOp EXCEPT !.op = "clear"]
    /\ UNCHANGED held

CacheCall ==
    \/ NewArray
    \/ \E r \in Slots : MutateArray(r)
    \/ \E k \in CallerKeys, r \in Slots : CallSet(k, r)
    \/ \E k \in CallerKeys : CallGet(k)
    \/ CallClear


----------------------------------------------------------------------------
(* SeamlessProcessor *)

\* Threads: the caller (the UI thread), the PreviewThread worker and the
\* ProcessingThread objects _process_texture creates, in order.
UiThread == 0

PrevThread == -1

\* How many requests (preview and full-resolution together) the UI makes.
MaxCalls == 2

\* The ProcessingThread objects, in the order _process_texture creates them.
Jobs == 1..MaxCalls

Threads == {UiThread, PrevThread} \cup Jobs

\* A params dict: a field is "-" / -1 when the dict has no such key.
NoKw == [method |-> "-", blend_strength |-> -1]

Kwargs == [method : Methods \cup {"-"}, blend_strength : StrengthVals \cup {-1}]

\* The frame of a call: where it is (pc), where set_parameters returns to
\* (ret), the arguments (image: -1 for no argument, 0 for a path that does
\* not decode), the locals, and history: noimg and had are taken when the
\* call starts looking (no image argument and none loaded; the current key
\* is stored), gets, sets and runs count the cache calls and the synthesis
\* runs, trigger is the parameter record of the request that made the call.
IdleFrame == [pc |-> "idle", ret |-> "idle", preview |-> FALSE, kw |-> NoKw, image |-> -1,
              noimg |-> FALSE, had |-> FALSE, km |-> "-", key |-> NoKey, skey |-> NoKey,
              hit |-> FALSE, img |-> 0, strategy |-> "-", result |-> <<>>, trigger |-> NoKw,
              gets |-> 0, sets |-> 0, runs |-> 0, outcome |-> "-"]

InitProc ==
    /\ original_image = 0
    /\ preview_image = 0
    /\ processed_image = <<>>
    /\ image_hash = 0
    /\ method = "standard"
    /\ blend_strength = 5000

InitFrames ==
    /\ fr = [t \in Threads |-> IdleFrame]
    /\ inCache = {}

\* PreviewThread.__init__, lines 47-52, and MainWindow.__init__, line 96.
InitThreads ==
    /\ pt_params = NoKw
    /\ restart = FALSE
    /\ wpc = "off"
    /\ processing_thread = 0
    /\ job = [j \in Jobs |-> "new"]
    /\ reqs = 0
    /\ fullreqs = 0
    /\ emitted = <<>>
    /\ served = TRUE

\* load_image, lines 64-84: the processor's fields after loading image (0: a
\* path cv2.imread cannot decode).
load_image(image) ==
    [original_image |-> image,
     processed_image |-> <<>>,
     image_hash |-> IF image # 0 THEN hash_image(image) ELSE image_hash,
     preview_image |-> IF image # 0 THEN image ELSE preview_image]

\* _get_cache_params, with the method read earlier (m) and the strength read
\* now.
get_cache_params(m) == [method |-> m, blend_strength |-> Round3(blend_strength)]

\* A process that never fails for want of an image.
process_raises_never(orig) == FALSE

\* process, line 104: if self._original_image is None: raise ValueError.
process_raises(orig) == orig = 0

\* A process that consults the cache at either resolution.
UsesCache_always(preview, ih) == ih # 0

\* process, lines 108 and 132: if preview and self._image_hash.
UsesCache(preview, ih) == preview /\ ih # 0

\* set_parameters, lines 53-55, first item: method.
SpMethod(t) ==
    /\ fr[t].pc = "sp_method"
    /\ method' = IF fr[t].kw.method # "-" THEN fr[t].kw.method ELSE method
    /\ fr' = [fr EXCEPT ![t].pc = "sp_strength"]
    /\ UNCHANGED <<cacheVars, original_image, preview_image, processed_image, image_hash,
                   blend_strength, inCache>>

\* set_parameters, lines 53-55, second item: blend_strength.
SpStrength(t) ==
    /\ fr[t].pc = "sp_strength"
    /\ blend_strength' = IF fr[t].kw.blend_strength # -1 THEN fr[t].kw.blend_strength
                         ELSE blend_strength
    /\ fr' = [fr EXCEPT ![t].pc = fr[t].ret, ![t].kw = NoKw]
    /\ UNCHANGED <<cacheVars, original_image, preview_image, processed_image, image_hash,
                   method, inCache>>

\* The frame of process(image, preview, params) as the call starts, made for
\* the request record trigger.
ProcessFrame(image, preview, kw, trigger) ==
    [IdleFrame EXCEPT !.pc = IF kw # NoKw THEN "sp_method" ELSE "p_load",
                      !.ret = "p_load", !.image = image, !.preview = preview, !.kw = kw,
                      !.noimg = (image = -1 /\ original_image = 0),
                      !.trigger = trigger, !.outcome = "called"]

\* process, lines 101-108: load the image argument, fail without an image.
PLoad(t) ==
    /\ fr[t].pc = "p_load"
    /\ LET ld == IF fr[t].image # -1 THEN load_image(fr[t].image)
                 ELSE [original_image |-> original_image, processed_image |-> processed_image,
                       image_hash |-> image_hash, preview_image |-> preview_image]
       IN  /\ original_image' = ld.original_image
           /\ processed_image' = ld.processed_image
           /\ image_hash' = ld.image_hash
           /\ preview_image' = ld.preview_image
           /\ fr' = [fr EXCEPT ![t] =
                  IF process_raises(ld.original_image)
                  THEN [@ EXCEPT !.pc = "done", !.outcome = "raised", !.image = -1]
                  ELSE [@ EXCEPT !.pc = IF UsesCache(fr[t].preview, ld.image_hash)
                                        THEN "p_key" ELSE "p_src",
                                 !.image = -1,
                                 !.had = CacheKey(get_cache_params(method), ld.image_hash)
                                             \in DOMAIN cache]]
    /\ UNCHANGED <<cacheVars, method, blend_strength, inCache>>

\* _get_cache_params, line 141: the key's method is read.
PKey(t) ==
    /\ fr[t].pc \in {"p_key", "p_key2"}
    /\ fr' = [fr EXCEPT ![t].km = method,
                        ![t].pc = IF fr[t].pc = "p_key" THEN "p_get" ELSE "p_set"]
    /\ UNCHANGED <<cacheVars, procVars, inCache>>

\* process, lines 109-110: the rest of the key is read and cache.get called.
PGet(t) ==
    /\ fr[t].pc = "p_get"
    /\ LET key == CacheKey(get_cache_params(fr[t].km), image_hash)
           res == ResultCache_get(cache, access_order, heap, key, ProcRef)
       IN  /\ access_order' = res.access_order
           /\ heap' = Collect(res.heap, cache, held)
           /\ fr' = [fr EXCEPT ![t].pc = "p_got", ![t].key = key, ![t].hit = res.hit,
                               ![t].gets = @ + 1,
                               ![t].result = IF res.hit
                                             THEN <<res.heap[CHOOSE r \in res.ret : TRUE]>>
                                             ELSE <<>>]
    /\ inCache' = inCache \cup {t}
    /\ UNCHANGED <<cache, procVars>>

\* process, lines 111-112: cache.get has returned; a hit is returned.
PGot(t) ==
    /\ fr[t].pc = "p_got"
    /\ inCache' = inCache \ {t}
    /\ fr' = [fr EXCEPT ![t] = IF fr[t].hit
                               THEN [@ EXCEPT !.pc = "done", !.outcome = "returned"]
                               ELSE [@ EXCEPT !.pc = "p_src"]]
    /\ UNCHANGED <<cacheVars, procVars>>

\* process, lines 115-121: the source of the run (load_image again if the
\* preview image is missing).
PSrc(t) ==
    /\ fr[t].pc = "p_src"
    /\ IF fr[t].preview /\ preview_image = 0
       THEN LET ld == load_image(original_image)
            IN  /\ original_image' = ld.original_image
                /\ processed_image' = ld.processed_image
                /\ image_hash' = ld.image_hash
                /\ preview_image' = ld.preview_image
                /\ fr' = [fr EXCEPT ![t].pc = "p_disp", ![t].img = ld.preview_image]
       ELSE /\ fr' = [fr EXCEPT ![t].pc = "p_disp",
                                ![t].img = IF fr[t].preview THEN preview_image
                                           ELSE original_image]
            /\ UNCHANGED <<original_image, processed_image, image_hash, preview_image>>
    /\ UNCHANGED <<cacheVars, method, blend_strength, inCache>>

\* process, line 124: if self.method == 'overlap'.
PDisp(t) ==
    /\ fr[t].pc = "p_disp"
    /\ fr' = [fr EXCEPT ![t] = IF method = "overlap"
                               THEN [@ EXCEPT !.pc = "p_synth", !.strategy = "overlap"]
                               ELSE [@ EXCEPT !.pc = "p_disp2"]]
    /\ UNCHANGED <<cacheVars, procVars, inCache>>

\* process, lines 126-129: elif self.method == 'splat', else standard.
PDisp2(t) ==
    /\ fr[t].pc = "p_disp2"
    /\ fr' = [fr EXCEPT ![t].pc = "p_synth",
                        ![t].strategy = IF method = "splat" THEN "splat" ELSE "standard"]
    /\ UNCHANGED <<cacheVars, procVars, inCache>>

\* _process_overlap / _process_splat / _process_standard: the strategy reads
\* its parameters and computes the result.
PSynth(t) ==
    /\ fr[t].pc = "p_synth"
    /\ fr' = [fr EXCEPT ![t].pc = "p_store", ![t].runs = @ + 1,
                        ![t].result = <<[method |-> fr[t].strategy,
                                         blend_strength |-> blend_strength,
                                         image |-> fr[t].img, preview |-> fr[t].preview,
                                         px |-> 0]>>]
    /\ UNCHANGED <<cacheVars, procVars, inCache>>

\* _process_*, lines 163, 181, 225: self._processed_image = result.
PStore(t) ==
    /\ fr[t].pc = "p_store"
    /\ processed_image' = fr[t].result
    /\ fr' = [fr EXCEPT ![t].pc = IF UsesCache(fr[t].preview, image_hash)
                                  THEN "p_key2" ELSE "p_ret"]
    /\ UNCHANGED <<cacheVars, original_image, preview_image, image_hash, method,
                   blend_strength, inCache>>

\* process, lines 133-134: the rest of the key is read and cache.set called.
PSet(t) ==
    /\ fr[t].pc = "p_set"
    /\ LET key == CacheKey(get_cache_params(fr[t].km), image_hash)
           h1 == [r \in DOMAIN heap \cup {ProcRef} |->
                     IF r = ProcRef THEN fr[t].result[1] ELSE heap[r]]
           res == ResultCache_set(cache, access_order, h1, key, ProcRef)
       IN  /\ cache' = res.cache
           /\ access_order' = res.access_order
           /\ heap' = Collect(res.heap, res.cache, held)
           /\ fr' = [fr EXCEPT ![t].pc = "p_setdone", ![t].skey = key, ![t].sets = @ + 1]
    /\ inCache' = inCache \cup {t}
    /\ UNCHANGED procVars

\* cache.set has returned.
PSetDone(t) ==
    /\ fr[t].pc = "p_setdone"
    /\ inCache' = inCache \ {t}
    /\ fr' = [fr EXCEPT ![t].pc = "p_ret"]
    /\ UNCHANGED <<cacheVars, procVars>>

\* process, line 136: return result.
PRet(t) ==
    /\ fr[t].pc = "p_ret"
    /\ fr' = [fr EXCEPT ![t].pc = "done", ![t].outcome = "returned"]
    /\ UNCHANGED <<cacheVars, procVars, inCache>>

\* One statement of set_parameters or process in thread t.
ProcessStep(t) ==
    \/ SpMethod(t)
    \/ SpStrength(t)
    \/ PLoad(t)
    \/ PKey(t)
    \/ PGet(t)
    \/ PGot(t)
    \/ PSrc(t)
    \/ PDisp(t)
    \/ PDisp2(t)
    \/ PSynth(t)
    \/ PStore(t)
    \/ PSet(t)
    \/ PSetDone(t)
    \/ PRet(t)

----------------------------------------------------------------------------
(* Spec: one thread calling the processor *)

\* processor.load_image(image)
CallLoadImage(image) ==
    /\ fr[UiThread].pc = "idle"
    /\ LET ld == load_image(image)
       IN  /\ original_image' = ld.original_image
           /\ processed_image' = ld.processed_image
           /\ image_hash' = ld.image_hash
           /\ preview_image' = ld.preview_image
    /\ UNCHANGED <<cacheVars, method, blend_strength, fr, inCache>>

\* processor.set_parameters(**kw)
CallSetParameters(kw) ==
    /\ fr[UiThread].pc = "idle"
    /\ kw # NoKw
    /\ fr' = [fr EXCEPT ![UiThread] = [IdleFrame EXCEPT !.pc = "sp_method", !.ret = "done",
                                                        !.kw = kw]]
    /\ UNCHANGED <<cacheVars, procVars, inCache>>

\* processor.process(image, preview, params)
CallProcess(image, preview, kw) ==
    /\ fr[UiThread].pc = "idle"
    /\ fr' = [fr EXCEPT ![UiThread] = ProcessFrame(image, preview, kw, NoKw)]
    /\ UNCHANGED <<cacheVars, procVars, inCache>>

\* The call returns (or its exception reaches the caller).
Return ==
    /\ fr[UiThread].pc = "done"
    /\ fr' = [fr EXCEPT ![UiThread] = IdleFrame]
    /\ UNCHANGED <<cacheVars, procVars, inCache>>

\* The params dicts the caller passes: none, one key, or both.
CallerKwargs == {NoKw,
                 [method |-> "overlap", blend_strength |-> -1],
                 [method |-> "splat", blend_strength |-> 5004],
                 [method |-> "standard", blend_strength |-> 5000]}

\* The image arguments the caller passes.
ImageArgs == {-1, 0} \cup Images

Next ==
    /\ \/ \E image \in {0} \cup Images : CallLoadImage(image)
       \/ \E kw \in CallerKwargs : CallSetParameters(kw)
       \/ \E image \in ImageArgs, preview \in BOOLEAN, kw \in CallerKwargs :
              CallProcess(image, preview, kw)
       \/ ProcessStep(UiThread)
       \/ Return
    /\ UNCHANGED <<callerVars, threadVars, pureVars>>

\* The objects as constructed.
InitObjects == InitCache /\ InitCaller /\ InitProc /\ InitFrames /\ InitThreads

\* No call of a pure function is being looked at.
InitPure ==
    /\ fin = <<>>
    /\ fout = <<>>

Init == InitObjects /\ InitPure

Spec == Init /\ [][Next]_vars

NextCache == CacheCall /\ UNCHANGED <<procVars, fr, inCache, threadVars, pureVars>>

SpecCache == Init /\ [][NextCache]_vars

----------------------------------------------------------------------------
(* SpecThreads: the UI thread, the preview worker and the full-resolution
   jobs sharing one SeamlessProcessor *)

\* The records control_panel.get_parameters() returns.
ReqParams == {[method |-> "standard", blend_strength |-> 5000],
              [method |-> "overlap", blend_strength |-> 5004]}

\* The image the user opens.
FirstImage == CHOOSE image \in Images : \A other \in Images : image <= other

\* _load_image, line 248: processor.load_image(image), for the first image.
LoadImage(image) ==
    /\ fr[UiThread].pc = "idle"
    /\ original_image = 0
    /\ LET ld == load_image(image)
       IN  /\ original_image' = ld.original_image
           /\ processed_image' = ld.processed_image
           /\ image_hash' = ld.image_hash
           /\ preview_image' = ld.preview_image
    /\ UNCHANGED <<cacheVars, method, blend_strength, fr, inCache, threadVars>>

\* QThread.isRunning() of the preview worker.
isRunning == wpc # "off"

\* _request_live_preview, lines 299-301, and request, lines 55-57: the params
\* are stored under the mutex.
Request(params) ==
    /\ fr[UiThread].pc = "idle"
    /\ original_image # 0
    /\ reqs + fullreqs < MaxCalls
    /\ pt_params' = params
    /\ reqs' = reqs + 1
    /\ served' = FALSE
    /\ fr' = [fr EXCEPT ![UiThread].pc = "rq_running"]
    /\ UNCHANGED <<cacheVars, procVars, inCache, restart, wpc, processing_thread, job,
                   fullreqs, emitted>>

\* request, line 59: if not self.isRunning().
RqRunning ==
    /\ fr[UiThread].pc = "rq_running"
    /\ fr' = [fr EXCEPT ![UiThread].pc = IF isRunning THEN "rq_restart" ELSE "rq_start"]
    /\ UNCHANGED <<cacheVars, procVars, inCache, threadVars>>

\* request, line 60: self.start().
RqStart ==
    /\ fr[UiThread].pc = "rq_start"
    /\ wpc' = IF isRunning THEN wpc ELSE "w_top"
    /\ fr' = [fr EXCEPT ![UiThread].pc = "idle"]
    /\ UNCHANGED <<cacheVars, procVars, inCache, pt_params, restart, processing_thread, job,
                   reqs, fullreqs, emitted, served>>

\* request, line 62: self._restart = True.
RqRestart ==
    /\ fr[UiThread].pc = "rq_restart"
    /\ restart' = TRUE
    /\ fr' = [fr EXCEPT ![UiThread].pc = "idle"]
    /\ UNCHANGED <<cacheVars, procVars, inCache, pt_params, wpc, processing_thread, job,
                   reqs, fullreqs, emitted, served>>

\* run, lines 66-74: under the mutex the params are read and _restart
\* cleared; process(preview=True, params=params) is called.
WTop ==
    /\ wpc = "w_top"
    /\ restart' = FALSE
    /\ IF pt_params # NoKw
       THEN /\ wpc' = "w_process"
            /\ fr' = [fr EXCEPT ![PrevThread] = ProcessFrame(-1, TRUE, pt_params, pt_params)]
       ELSE /\ wpc' = "w_final"
            /\ UNCHANGED fr
    /\ UNCHANGED <<cacheVars, procVars, inCache, pt_params, processing_thread, job,
                   reqs, fullreqs, emitted, served>>

\* A statement of process in the preview worker.
WStep ==
    /\ wpc = "w_process"
    /\ ProcessStep(PrevThread)
    /\ UNCHANGED threadVars

\* run, lines 75 and 77-78: process returned and _restart is read, or
\* process raised and the exception is dropped.
WReturned ==
    /\ wpc = "w_process"
    /\ fr[PrevThread].pc = "done"
    /\ wpc' = IF fr[PrevThread].outcome = "returned" /\ ~restart THEN "w_emit" ELSE "w_final"
    /\ UNCHANGED <<cacheVars, procVars, fr, inCache, pt_params, restart, processing_thread,
                   job, reqs, fullreqs, emitted, served>>

\* run, line 76: self.result_ready.emit(result).
WEmit ==
    /\ wpc = "w_emit"
    /\ emitted' = <<[trigger |-> fr[PrevThread].trigger, latest |-> pt_params,
                      inflight |-> fr[UiThread].pc \in {"rq_running", "rq_start", "rq_restart"}]>>
    /\ served' = (fr[PrevThread].trigger = pt_params)
    /\ wpc' = "w_final"
    /\ UNCHANGED <<cacheVars, procVars, fr, inCache, pt_params, restart, processing_thread,
                   job, reqs, fullreqs>>

\* run, lines 80-84: under the mutex, leave the loop unless _restart.
WFinal ==
    /\ wpc = "w_final"
    /\ wpc' = IF ~restart THEN "w_exit" ELSE "w_top"
    /\ fr' = [fr EXCEPT ![PrevThread] = IdleFrame]
    /\ UNCHANGED <<cacheVars, procVars, inCache, pt_params, restart, processing_thread,
                   job, reqs, fullreqs, emitted, served>>

\* run has returned; the thread finishes and isRunning() becomes false.
WExit ==
    /\ wpc = "w_exit"
    /\ wpc' = "off"
    /\ UNCHANGED <<cacheVars, procVars, fr, inCache, pt_params, restart, processing_thread,
                   job, reqs, fullreqs, emitted, served>>

\* _process_texture, lines 310-320: with an image loaded, the params are read
\* and set_parameters(**params) is called.
ProcessTexture(params) ==
    /\ fr[UiThread].pc = "idle"
    /\ original_image # 0
    /\ reqs + fullreqs < MaxCalls
    /\ fullreqs' = fullreqs + 1
    /\ fr' = [fr EXCEPT ![UiThread] = [IdleFrame EXCEPT !.pc = "sp_method", !.ret = "pt_wait",
                                                        !.kw = params, !.trigger = params]]
    /\ UNCHANGED <<cacheVars, procVars, inCache, pt_params, restart, wpc, processing_thread,
                   job, reqs, emitted, served>>

\* A statement of set_parameters in the UI thread.
UiStep ==
    /\ \/ SpMethod(UiThread)
       \/ SpStrength(UiThread)
    /\ UNCHANGED threadVars

\* A _process_texture that does not wait for the job before.
PtWaited_never(pt) == TRUE

\* _process_texture, lines 323-324: self.processing_thread.wait() returns
\* when the job created last has finished.
PtWaited(pt) == IF pt = 0 THEN TRUE ELSE job[pt] \in {"returned", "raised"}

\* A ProcessingThread that asks for a preview.
JobPreview_on == TRUE

\* ProcessingThread.run, line 36: self.processor.process(), preview=False.
JobPreview == FALSE

\* _process_texture, lines 323-328: wait for the job before, then create
\* and start a ProcessingThread, whose run calls processor.process().
PtStart ==
    /\ fr[UiThread].pc = "pt_wait"
    /\ PtWaited(processing_thread)
    /\ LET j == processing_thread + 1
       IN  /\ processing_thread' = j
           /\ job' = [job EXCEPT ![j] = "running"]
           /\ fr' = [fr EXCEPT ![UiThread] = IdleFrame,
                               ![j] = ProcessFrame(-1, JobPreview, NoKw, fr[UiThread].trigger)]
    /\ UNCHANGED <<cacheVars, procVars, inCache, pt_params, restart, wpc, reqs, fullreqs,
                   emitted, served>>

\* A statement of process in a ProcessingThread.
JobStep(j) ==
    /\ job[j] = "running"
    /\ ProcessStep(j)
    /\ UNCHANGED threadVars

\* ProcessingThread.run, lines 38-40: finished or error is emitted and run
\* returns.
JobFinish(j) ==
    /\ job[j] = "running"
    /\ fr[j].pc = "done"
    /\ job' = [job EXCEPT ![j] = fr[j].outcome]
    /\ fr' = [fr EXCEPT ![j] = IdleFrame]
    /\ UNCHANGED <<cacheVars, procVars, inCache, pt_params, restart, wpc, processing_thread,
                   reqs, fullreqs, emitted, served>>

NextThreads ==
    /\ \/ LoadImage(FirstImage)
       \/ \E params \in ReqParams : Request(params)
       \/ RqRunning
       \/ RqStart
       \/ RqRestart
       \/ WTop
       \/ WStep
       \/ WReturned
       \/ WEmit
       \/ WFinal
       \/ WExit
       \/ \E params \in ReqParams : ProcessTexture(params)
       \/ UiStep
       \/ PtStart
       \/ \E j \in Jobs : JobStep(j)
       \/ \E j \in Jobs : JobFinish(j)
    /\ UNCHANGED <<callerVars, pureVars>>

SpecThreads == Init /\ [][NextThreads]_vars

\* _process_texture, lines 323-328, as a step of the lanes: the UI thread goes
\* on as soon as wait() returns.
UiProceeds == PtStart /\ UNCHANGED <<callerVars, pureVars>>

\* The lanes with a UI thread that is scheduled; a ProcessingThread may take
\* for ever (no fairness for its steps).
SpecThreadsWait == SpecThreads /\ WF_vars(UiProceeds)

----------------------------------------------------------------------------
(* The pure functions: each specification draws the arguments of one call
   and applies the function to them *)

objVars == <<cacheVars, callerVars, procVars, fr, inCache, threadVars>>

(* SpecKey: the cache key of a parameter state *)

\* round(x, 2) of a number given in 1/10000.
Round2(x) == (x + 50) \div 100

\* int(x) of a non-negative number given in 1/10000.
IntOf(x) == x \div 10000

\* The parameter fields of a SeamlessProcessor (numbers in 1/10000).
ParamStates ==
    [method : {"standard", "splat"},
     blend_strength : {5000, 5004, 5010},
     symmetric_blending : BOOLEAN,
     splat_scale : {10000, 10040, 10100},
     splat_rotation : {100000, 104000}]

\* _get_cache_params of a processor whose fields are p.
GetCacheParams(p) ==
    [method |-> p.method,
     blend_strength |-> Round3(p.blend_strength),
     splat_scale |-> Round2(p.splat_scale),
     splat_rotation |-> IntOf(p.splat_rotation)]

\* _hash_params: the digest of str(sorted(params.items())), as the list of
\* the values in the order of their names.
HashParams(cp) == <<cp.blend_strength, cp.method, cp.splat_rotation, cp.splat_scale>>

InitKey ==
    /\ InitObjects
    /\ fin \in [a : ParamStates, b : ParamStates]
    /\ fout = <<>>

\* The keys of the two parameter states are computed.
KeysComputed ==
    /\ fout = <<>>
    /\ fout' = <<HashParams(GetCacheParams(fin.a)), HashParams(GetCacheParams(fin.b))>>
    /\ UNCHANGED <<objVars, fin>>

SpecKey == InitKey /\ [][KeysComputed]_vars

(* SpecOffset: offset_image and reverse_offset *)

\* The largest height and width of an image.
MaxDim == 3

\* Fractions are given in tenths.
Tenths == 10

Fractions == {0, 3, 5, 7}

\* The pixel positions of an h x w image, rows and columns from 0.
Positions(h, w) == (0..(h - 1)) \X (0..(w - 1))

\* The h x w image whose every pixel has a value of its own.
LabelledImage(h, w) == [h |-> h, w |-> w, px |-> [p \in Positions(h, w) |-> p[1] * w + p[2]]]

OffsetImages == {LabelledImage(h, w) : h \in 1..MaxDim, w \in 1..MaxDim}

\* np.roll(image, shift, axis=1).
RollAxis1(image, shift) ==
    [image EXCEPT !.px = [p \in Positions(image.h, image.w) |->
                             image.px[<<p[1], (p[2] - shift) % image.w>>]]]

\* np.roll(image, shift, axis=0).
RollAxis0(image, shift) ==
    [image EXCEPT !.px = [p \in Positions(image.h, image.w) |->
                             image.px[<<(p[1] - shift) % image.h, p[2]>>]]]

\* offset_image, lines 24-25: int(w * offset_x).
ShiftOf(n, f) == (n * f) \div Tenths

\* A reverse_offset that rounds the shift instead.
ReverseShiftOf_rounded(n, f) == (n * f + 5) \div Tenths

\* reverse_offset, lines 48-49: int(w * offset_x).
ReverseShiftOf(n, f) == (n * f) \div Tenths

\* offset_image, lines 21-31.
offset_image(image, offset_x, offset_y) ==
    RollAxis0(RollAxis1(image, ShiftOf(image.w, offset_x)), ShiftOf(image.h, offset_y))

\* reverse_offset, lines 46-55.
reverse_offset(image, offset_x, offset_y) ==
    RollAxis1(RollAxis0(image, -ReverseShiftOf(image.h, offset_y)),
              -ReverseShiftOf(image.w, offset_x))

InitOffset ==
    /\ InitObjects
    /\ fin \in [image : OffsetImages, offset_x : Fractions, offset_y : Fractions]
    /\ fout = <<>>

\* offset_image(image, offset_x, offset_y) is called.
OffsetCalled ==
    /\ fout = <<>>
    /\ fout' = <<offset_image(fin.image, fin.offset_x, fin.offset_y)>>
    /\ UNCHANGED <<objVars, fin>>

\* reverse_offset is called on the result with the same fractions.
ReverseCalled ==
    /\ Len(fout) = 1
    /\ fout' = Append(fout, reverse_offset(fout[1], fin.offset_x, fin.offset_y))
    /\ UNCHANGED <<objVars, fin>>

NextOffset ==
    \/ OffsetCalled
    \/ ReverseCalled

SpecOffset == InitOffset /\ [][NextOffset]_vars

(* SpecOverlap: synthesis_overlap *)

\* Pixel values are kept as expressions over the pixels of the input, so
\* that two pixels are equal exactly when they are equal for every input.

\* left * (1 - t) + right * t for t = np.linspace(1, 0, n)[i], raised to
\* gamma when falloff > 0.01: t is 1 at i = 0 and 0 at i = n - 1 (n > 1).
Mix(left, right, i, n, falloff) ==
    IF left = right THEN left
    ELSE IF i = 0 THEN right
    ELSE IF i = n - 1 THEN left
    ELSE [mix |-> <<left, right>>, t |-> <<i, n, falloff > 0>>]

\* int(w * overlap_x), lines 93 and 178.
BlendSize(n, overlap) == (n * overlap) \div Tenths

\* X pass, lines 92-159: the right strip is blended onto the left strip and
\* cut off.
OverlapXPass(image, overlap_x, falloff) ==
    LET blend_w == BlendSize(image.w, overlap_x)
        new_w == image.w - blend_w
    IN  IF overlap_x > 0 /\ blend_w > 0
        THEN [h |-> image.h, w |-> new_w,
              px |-> [p \in Positions(image.h, new_w) |->
                         IF p[2] < blend_w
                         THEN Mix(image.px[p], image.px[<<p[1], image.w - blend_w + p[2]>>],
                                  p[2], blend_w, falloff)
                         ELSE image.px[p]]]
        ELSE image

\* Y pass, lines 170-201: the bottom strip is blended onto the top strip and
\* cut off.
OverlapYPass(image, overlap_y, falloff) ==
    LET blend_h == BlendSize(image.h, overlap_y)
        new_h == image.h - blend_h
    IN  IF overlap_y > 0 /\ blend_h > 0
        THEN [h |-> new_h, w |-> image.w,
              px |-> [p \in Positions(new_h, image.w) |->
                         IF p[1] < blend_h
                         THEN Mix(image.px[p], image.px[<<image.h - blend_h + p[1], p[2]>>],
                                  p[1], blend_h, falloff)
                         ELSE image.px[p]]]
        ELSE image

\* Linear interpolation between two samples, frac / den of the way.
Lerp(a, b, frac, den) ==
    IF frac = 0 \/ a = b THEN a ELSE [lerp |-> <<a, b>>, at |-> <<frac, den>>]

\* cv2.resize, INTER_LINEAR, along one axis: the source sample left of
\* destination sample x and the fraction towards the next one, for a source
\* of n_src and a destination of n_dst samples (pixel centres aligned, the
\* ends clamped).
ResizeTap(x, n_src, n_dst) ==
    LET num == (2 * x + 1) * n_src - n_dst
        den == 2 * n_dst
        sx == num \div den
    IN  IF num < 0 THEN [at |-> 0, frac |-> 0, den |-> den]
        ELSE IF sx >= n_src - 1 THEN [at |-> n_src - 1, frac |-> 0, den |-> den]
        ELSE [at |-> sx, frac |-> num % den, den |-> den]

\* cv2.resize(img_f, (w, h), interpolation=cv2.INTER_LINEAR), line 205: an
\* empty source is an error.
Resize(image, w, h) ==
    IF image.h = 0 \/ image.w = 0
    THEN [ok |-> FALSE]
    ELSE [ok |-> TRUE, h |-> h, w |-> w,
          px |-> [p \in Positions(h, w) |->
                     LET ty == ResizeTap(p[1], image.h, h)
                         tx == ResizeTap(p[2], image.w, w)
                         y2 == IF ty.frac = 0 THEN ty.at ELSE ty.at + 1
                         x2 == IF tx.frac = 0 THEN tx.at ELSE tx.at + 1
                         top == Lerp(image.px[<<ty.at, tx.at>>], image.px[<<ty.at, x2>>],
                                     tx.frac, tx.den)
                         bottom == Lerp(image.px[<<y2, tx.at>>], image.px[<<y2, x2>>],
                                        tx.frac, tx.den)
                     IN  Lerp(top, bottom, ty.frac, ty.den)]]

\* synthesis_overlap, lines 86-207.
synthesis_overlap(image, overlap_x, overlap_y, falloff) ==
    Resize(OverlapYPass(OverlapXPass(image, overlap_x, falloff), overlap_y, falloff),
           image.w, image.h)

\* overlap_x, overlap_y in [0, 1], in tenths.
Overlaps == {0, 3, 5, 10}

\* falloff, in tenths.
Falloffs == {0, 5}

InitOverlap ==
    /\ InitObjects
    /\ fin \in [image : OffsetImages, overlap_x : Overlaps, overlap_y : Overlaps,
                falloff : Falloffs]
    /\ fout = <<>>

\* synthesis_overlap(image, overlap_x, overlap_y, falloff) is called.
OverlapCalled ==
    /\ fout = <<>>
    /\ fout' = <<synthesis_overlap(fin.image, fin.overlap_x, fin.overlap_y, fin.falloff)>>
    /\ UNCHANGED <<objVars, fin>>

SpecOverlap == InitOverlap /\ [][OverlapCalled]_vars

(* SpecSplat: one placement of the splatting loop of synthesis_splat *)

\* int(x) of x = n / 2: towards zero.
IntOfHalves(n) == IF n >= 0 THEN n \div 2 ELSE -((-n) \div 2)

\* Lines 329-330: top = int(cy - ph/2), left = int(cx - pw/2), for a centre
\* given in halves of a pixel.
PlacementOf(centre2, size) == IntOfHalves(centre2 - size)

\* A wrap test that never sees a patch hanging over the left or top edge.
WrapNeg_never(at) == FALSE

\* Lines 372-373: wrap_neg_x = left < 0, wrap_neg_y = top < 0.
WrapNeg(at) == at < 0

\* Lines 370-371: wrap_x = left + pw > target_w, wrap_y = top + ph > target_h.
WrapPos(at, size, target) == at + size > target

\* Lines 367-383: the (y, x) arguments of the blend_clipped calls made for a
\* patch of ph x pw placed at (top, left), in the order of the calls.
BlendCalls(top, left, ph, pw, target_h, target_w) ==
    LET wrap_x == WrapPos(left, pw, target_w)
        wrap_y == WrapPos(top, ph, target_h)
        wrap_neg_x == WrapNeg(left)
        wrap_neg_y == WrapNeg(top)
        When(cond, call) == IF cond THEN <<call>> ELSE <<>>
    IN  <<<<top, left>>>>
        \o When(wrap_x, <<top, left - target_w>>)
        \o When(wrap_neg_x, <<top, left + target_w>>)
        \o When(wrap_y, <<top - target_h, left>>)
        \o When(wrap_neg_y, <<top + target_h, left>>)
        \o When(wrap_x /\ wrap_y, <<top - target_h, left - target_w>>)
        \o When(wrap_x /\ wrap_neg_y, <<top + target_h, left - target_w>>)
        \o When(wrap_neg_x /\ wrap_y, <<top - target_h, left + target_w>>)
        \o When(wrap_neg_x /\ wrap_neg_y, <<top + target_h, left + target_w>>)

\* blend_clipped(y, x, ...), lines 335-359: whether the call writes canvas
\* pixel p (the clipped rectangle).
BlendCovers(call, p, ph, pw, target_h, target_w) ==
    LET y1 == IF call[1] > 0 THEN call[1] ELSE 0
        y2 == IF call[1] + ph < target_h THEN call[1] + ph ELSE target_h
        x1 == IF call[2] > 0 THEN call[2] ELSE 0
        x2 == IF call[2] + pw < target_w THEN call[2] + pw ELSE target_w
    IN  y1 <= p[1] /\ p[1] < y2 /\ x1 <= p[2] /\ p[2] < x2

\* The patch pixels composited onto each canvas pixel by one pass of the
\* loop body, in the order they are composited.
SplatOnce(top, left, ph, pw, target_h, target_w) ==
    LET calls == BlendCalls(top, left, ph, pw, target_h, target_w)
    IN  [p \in Positions(target_h, target_w) |->
            LET hits == SelectSeq(calls,
                                  LAMBDA c : BlendCovers(c, p, ph, pw, target_h, target_w))
            IN  [i \in 1..Len(hits) |-> <<p[1] - hits[i][1], p[2] - hits[i][2]>>]]

\* A canvas, a patch not larger than it, and a wrapped centre (lines 320-321:
\* 0 <= cx < target_w, 0 <= cy < target_h), in halves of a pixel.
SplatInputs ==
    {f \in [target_h : 1..MaxDim, target_w : 1..MaxDim, ph : 1..MaxDim, pw : 1..MaxDim,
            cy2 : 0..(2 * MaxDim - 1), cx2 : 0..(2 * MaxDim - 1)] :
        /\ f.ph <= f.target_h /\ f.pw <= f.target_w
        /\ f.cy2 < 2 * f.target_h /\ f.cx2 < 2 * f.target_w}

InitSplat ==
    /\ InitObjects
    /\ fin \in SplatInputs
    /\ fout = <<>>

\* One pass of the loop body, lines 328-383.
SplatPlaced ==
    /\ fout = <<>>
    /\ fout' = <<SplatOnce(PlacementOf(fin.cy2, fin.ph), PlacementOf(fin.cx2, fin.pw),
                           fin.ph, fin.pw, fin.target_h, fin.target_w)>>
    /\ UNCHANGED <<objVars, fin>>

SpecSplat == InitSplat /\ [][SplatPlaced]_vars

(* SpecSeed: the random numbers of synthesis_splat, over several calls of
   _process_splat *)

\* How many times _process_splat is called.
MaxSplatCalls == 3

\* How many cells the grid has.
SplatCells == 2

\* np.random.RandomState(42), line 263.
RandomStateSeed == 42

\* The generator is a small linear congruential one: its state after a
\* draw, which is also the number drawn.
RngModulus == 16

RngNext(state) == (5 * state + 3) % RngModulus

\* RandomState(seed): the state a seed gives.
RngSeeded(seed) == seed % RngModulus

\* A synthesis that goes on with the generator the call before left behind.
RngAtCall_carried(before) == before

\* Line 263: rng is made anew in every call, from the same seed (before: the
\* state the generator of the call before ended in, which is gone).
RngAtCall(before) == RngSeeded(RandomStateSeed)

\* The splat parameters of the processor: the image given to the strategy,
\* splat_wobble (in tenths) and splat_randomize.
SplatParams == [image : Images, splat_wobble : {2}, splat_randomize : {0, 1}]

\* _process_splat, lines 171-180: the arguments synthesis_splat is given.
SplatArgsOf(params) == [image |-> params.image, wobble |-> params.splat_wobble]

\* The state of the generator after n draws.
RECURSIVE RngAfter(_, _)
RngAfter(state, n) == IF n = 0 THEN state ELSE RngAfter(RngNext(state), n - 1)

\* synthesis_splat, lines 263-385, as far as the random numbers go: one draw
\* for the shuffle of the cells (line 308), then for every cell two for the
\* wobble (lines 316-317) and one for the patch variant (line 324).
synthesis_splat(args, before) ==
    LET rng == RngAtCall(before)
        shuffled == RngNext(rng)
    IN  [out |-> [image |-> args.image,
                  order |-> shuffled,
                  cells |-> [c \in 1..SplatCells |->
                                [cx |-> RngAfter(shuffled, 3 * c - 2) * args.wobble,
                                 cy |-> RngAfter(shuffled, 3 * c - 1) * args.wobble,
                                 pidx |-> RngAfter(shuffled, 3 * c)]]],
         rng_end |-> RngAfter(shuffled, 3 * SplatCells)]

InitSeed ==
    /\ InitObjects
    /\ fin \in SplatParams
    /\ fout = <<>>

\* set_parameters / load_image between two calls.
SplatParamsSet ==
    /\ \E params \in SplatParams \ {fin} : fin' = params
    /\ UNCHANGED <<objVars, fout>>

\* _process_splat is called.
SplatCalled ==
    /\ Len(fout) < MaxSplatCalls
    /\ LET before == IF fout = <<>> THEN 0 ELSE fout[Len(fout)].rng_end
           res == synthesis_splat(SplatArgsOf(fin), before)
       IN  fout' = Append(fout, [params |-> fin, out |-> res.out, rng_end |-> res.rng_end])
    /\ UNCHANGED <<objVars, fin>>

NextSeed ==
    \/ SplatParamsSet
    \/ SplatCalled

SpecSeed == InitSeed /\ [][NextSeed]_vars

(* SpecParams: the parameters of one processor, set by set_parameters and
   by process(image, preview=False, params) *)

\* How many calls the caller makes.
MaxParamCalls == 3

\* The attributes of the processor as __init__ leaves them, lines 23-49, in
\* ten-thousandths (degrees for splat_rotation); original_image 0 is None.
\* seam_smoothness, detail_preservation, overlap_y, splat_random_rotation,
\* splat_wobble and splat_randomize are set and read as blend_strength,
\* overlap_x and splat_rotation are, and are left out.
ProcDefaults ==
    [original_image |-> 0,
     method |-> "standard",
     blend_strength |-> 5000,
     symmetric_blending |-> TRUE,
     use_jit |-> TRUE,
     overlap_x |-> 2000,
     edge_falloff |-> 1000,
     splat_scale |-> 10000,
     splat_rotation |-> 0]

\* An empty params dict.
NoParams == [k \in {} |-> 0]

\* The dicts that change the method alone.
MethodDicts == {[method |-> "overlap"], [method |-> "splat"]}

\* The dicts the caller passes: a key that is no attribute, values inside and
\* outside the documented ranges.
ParamDicts ==
    MethodDicts \cup
    {[blend_strength |-> 15000],
     [overlap_x |-> 5000],
     [splat_scale |-> 1000],
     [splat_rotation |-> 4000000],
     [symmetric_blending |-> FALSE],
     [use_jit |-> FALSE],
     [unknown |-> 1]}

\* set_parameters, lines 53-55: every key that is an attribute is set to the
\* value given.
set_parameters(p, kw) ==
    [k \in DOMAIN p |-> IF k \in DOMAIN kw THEN kw[k] ELSE p[k]]

\* An overlap strategy that reads blend_strength as well.
overlap_call_strength(p, img) ==
    [fn |-> "synthesis_overlap", image |-> img, overlap_x |-> p.overlap_x,
     falloff |-> p.edge_falloff, strength |-> p.blend_strength]

\* _process_overlap, lines 157-162: the call it makes.
overlap_call(p, img) ==
    [fn |-> "synthesis_overlap", image |-> img, overlap_x |-> p.overlap_x,
     falloff |-> p.edge_falloff]

\* _process_splat, lines 171-180: the call it makes.
splat_call(p, img) ==
    [fn |-> "synthesis_splat", image |-> img, grid_size |-> IntOf(8 * p.splat_scale),
     rotation |-> p.splat_rotation, falloff |-> p.edge_falloff]

\* _process_standard, lines 205-217: the blend call it makes (between the
\* offset, the inpainting and the reverse offset, which read blend_strength
\* and the image).
standard_call(p, img) ==
    IF p.use_jit
    THEN [fn |-> "blend_seams_fast", image |-> img, blend_strength |-> p.blend_strength]
    ELSE [fn |-> "blend_seams", image |-> img, blend_strength |-> p.blend_strength,
          symmetric |-> p.symmetric_blending]

\* process, lines 124-129.
strategy_call(p, img) ==
    IF p.method = "overlap" THEN overlap_call(p, img)
    ELSE IF p.method = "splat" THEN splat_call(p, img)
    ELSE standard_call(p, img)

\* synthesis_splat, lines 296-297: cell_w = target_w / cells_x raises
\* ZeroDivisionError for a grid of no cells.
strategy_raises(call) == call.fn = "synthesis_splat" /\ call.grid_size = 0

\* process(image, False, params), lines 98-136: the processor after the call,
\* how the call ended and the call of the strategy whose result it returns
\* (image: -1 for no argument, 0 for a path that does not decode).
process(p, image, params) ==
    LET p1 == IF params # NoParams THEN set_parameters(p, params) ELSE p
        p2 == IF image # -1 THEN [p1 EXCEPT !.original_image = image] ELSE p1
        call == strategy_call(p2, p2.original_image)
    IN  IF process_raises(p2.original_image)
        THEN [after |-> p2, outcome |-> "no image", result |-> <<>>]
        ELSE IF strategy_raises(call)
        THEN [after |-> p2, outcome |-> "raised", result |-> <<call>>]
        ELSE [after |-> p2, outcome |-> "returned", result |-> <<call>>]

InitParams ==
    /\ InitObjects
    /\ fin = ProcDefaults
    /\ fout = <<>>

\* processor.set_parameters(**kw)
SetParametersCalled(kw) ==
    /\ Len(fout) < MaxParamCalls
    /\ fin' = set_parameters(fin, kw)
    /\ fout' = Append(fout, [op |-> "set_parameters", kw |-> kw, before |-> fin,
                             after |-> fin', outcome |-> "returned", result |-> <<>>])
    /\ UNCHANGED objVars

\* processor.process(image, preview=False, params)
ProcessCalled(image, params) ==
    /\ Len(fout) < MaxParamCalls
    /\ LET res == process(fin, image, params)
       IN  /\ fin' = res.after
           /\ fout' = Append(fout, [op |-> "process", kw |-> params, before |-> fin,
                                    after |-> res.after, outcome |-> res.outcome,
                                    result |-> res.result])
    /\ UNCHANGED objVars

\* The params overrides the caller passes to process.
ProcessDicts == {NoParams, [method |-> "overlap"], [blend_strength |-> 15000]}

NextParams ==
    \/ \E kw \in ParamDicts : SetParametersCalled(kw)
    \/ \E image \in {-1} \cup Images, params \in ProcessDicts : ProcessCalled(image, params)

SpecParams == InitParams /\ [][NextParams]_vars

(* SpecBlend: blend_seams and blend_seams_fast *)

\* The heights and widths of the images blended.
BlendDims == {3, 8, 16}

\* The h x w image whose every pixel is named after its place: a pixel of a
\* blended image is an expression over these.
SourceImage(h, w) == [h |-> h, w |-> w, px |-> [p \in Positions(h, w) |-> [at |-> p]]]

BlendImages == {SourceImage(h, w) : h \in BlendDims, w \in BlendDims}

\* blend_strength, in tenths.
Strengths == {0, 3, 5, 10}

\* smoothness is given in hundredths.
Hundredths == 100

\* smoothness: 0, 0.25 (gamma 2) and 0.5 (gamma 1).
Smoothnesses == {0, 25, 50}

MinOf(a, b) == IF a < b THEN a ELSE b

MaxOf(a, b) == IF a > b THEN a ELSE b

\* A blend width that leaves the strength out.
BlendWidth_unscaled(image, strength) == MinOf(image.h, image.w) \div 4

\* blend_seams, lines 111-112, and blend_seams_fast, lines 117-118:
\* int((min(h, w) // 4) * strength).
BlendWidth(image, strength) ==
    ((MinOf(image.h, image.w) \div 4) * strength) \div Tenths

RECURSIVE Power(_, _)
Power(x, n) == IF n = 0 THEN 1 ELSE x * Power(x, n - 1)

\* The weight of one offset, as the fraction <<numerator, denominator>>:
\* t = offset / half_blend, and for smoothness > 0.01 the smoothstep
\* t * t * (3 - 2 * t) raised to gamma = 1 / (2 * smoothness).
WeightOf(offset, half_blend, smoothness) ==
    IF smoothness > 1
    THEN LET gamma == Hundredths \div (2 * smoothness)
         IN  <<Power(offset * offset * (3 * half_blend - 2 * offset), gamma),
               Power(half_blend * half_blend * half_blend, gamma)>>
    ELSE <<offset, half_blend>>

\* blend_seams, lines 185-192 (and 204-211): the weights of the offsets
\* 1..half_blend.
t_values(half_blend, smoothness) ==
    [offset \in 1..half_blend |-> WeightOf(offset, half_blend, smoothness)]

\* calculate_blend_weights, edge_blending_jit.py lines 85-99.
calculate_blend_weights(half_blend, smoothness) ==
    [i \in 1..half_blend |-> WeightOf(i, half_blend, smoothness)]

\* (1 - weight) * a + weight * b; a weight of 1 gives b.
Weighted(a, b, weight) ==
    IF weight[1] = weight[2] THEN b ELSE [mix |-> <<a, b>>, weight |-> weight]

\* The offsets whose left column (top row) is at, for the centre c of n
\* columns (rows).
OffsetsAt(at, c, n, half_blend) == {o \in 1..half_blend : (c - o) % n = at}

LastOf(offsets) == CHOOSE o \in offsets : \A other \in offsets : other <= o

\* The horizontal pass, lines 195-198 / blend_seam_horizontal_jit: every
\* column cx - offset of result becomes the mix of that column and column
\* cx + offset of source.
BlendColumns(result, source, half_blend, weights) ==
    LET cx == result.w \div 2
    IN  [result EXCEPT !.px = [p \in Positions(result.h, result.w) |->
            LET os == OffsetsAt(p[2], cx, result.w, half_blend)
            IN  IF os = {} THEN result.px[p]
                ELSE Weighted(source.px[p],
                              source.px[<<p[1], (cx + LastOf(os)) % result.w>>],
                              weights[LastOf(os)])]]

\* The vertical pass, lines 214-217 / blend_seam_vertical_jit.
BlendRows(result, source, half_blend, weights) ==
    LET cy == result.h \div 2
    IN  [result EXCEPT !.px = [p \in Positions(result.h, result.w) |->
            LET os == OffsetsAt(p[1], cy, result.h, half_blend)
            IN  IF os = {} THEN result.px[p]
                ELSE Weighted(source.px[p],
                              source.px[<<(cy + LastOf(os)) % result.h, p[2]>>],
                              weights[LastOf(os)])]]

\* The mask of one axis, lines 126-139 (142-151): 1 - dist, smoothed, inside
\* [c - half_blend, c + half_blend), as the numerator over half_blend cubed.
MaskAt(at, c, half_blend) ==
    LET dist == IF at >= c THEN at - c ELSE c - at
        k == half_blend - dist
    IN  IF at >= MaxOf(0, c - half_blend) /\ at < c + half_blend
        THEN k * k * (3 * half_blend - 2 * k)
        ELSE 0

\* Lines 158-162: the kernel size of the blur.
BlurRadius(blend_width, smoothness) ==
    LET base_radius == MaxOf(3, blend_width \div 2)
        scaled_radius == 3 + ((base_radius - 3) * smoothness) \div Hundredths
        odd == IF scaled_radius % 2 = 0 THEN scaled_radius + 1 ELSE scaled_radius
    IN  MaxOf(3, odd)

\* The soft mode, lines 118-171: image * (1 - mask) + blurred * mask.
SoftBlend(image, blend_width, smoothness) ==
    LET half_blend == blend_width \div 2
        radius == BlurRadius(blend_width, smoothness)
    IN  [image EXCEPT !.px = [p \in Positions(image.h, image.w) |->
            LET mask == MaxOf(MaskAt(p[2], image.w \div 2, half_blend),
                              MaskAt(p[1], image.h \div 2, half_blend))
            IN  IF mask = 0 THEN image.px[p]
                ELSE [soft |-> image.px[p], blurred |-> <<p, radius>>,
                      mask |-> <<mask, half_blend * half_blend * half_blend>>]]]

\* The mirror mode of blend_seams, lines 177-219: both passes read image.
MirrorBlend(image, half_blend, smoothness) ==
    IF half_blend > 0
    THEN BlendRows(BlendColumns(image, image, half_blend, t_values(half_blend, smoothness)),
                   image, half_blend, t_values(half_blend, smoothness))
    ELSE image

\* blend_seams, lines 108-219.
blend_seams(image, strength, smoothness, symmetric) ==
    LET blend_width == BlendWidth(image, strength)
    IN  IF blend_width < 2 THEN image
        ELSE IF ~symmetric THEN SoftBlend(image, blend_width, smoothness)
        ELSE MirrorBlend(image, blend_width \div 2, smoothness)

\* blend_seams_fast, lines 114-142: the horizontal pass reads the image, the
\* vertical pass reads result itself (the rows it reads from are rows it does
\* not write).
blend_seams_fast(image, strength, smoothness) ==
    LET blend_width == BlendWidth(image, strength)
        half_blend == blend_width \div 2
        weights == calculate_blend_weights(half_blend, smoothness)
        columns == BlendColumns(image, image, half_blend, weights)
    IN  IF blend_width < 2 THEN image
        ELSE IF half_blend < 1 THEN image
        ELSE BlendRows(columns, columns, half_blend, weights)

InitBlend ==
    /\ InitObjects
    /\ fin \in [image : BlendImages, blend_strength : Strengths, smoothness : Smoothnesses,
                symmetric : BOOLEAN]
    /\ fout = <<>>

\* blend_seams and blend_seams_fast are called on the same image: the two
\* results and the weights each of them computed.
BlendCalled ==
    /\ fout = <<>>
    /\ LET half_blend == BlendWidth(fin.image, fin.blend_strength) \div 2
       IN  fout' = <<blend_seams(fin.image, fin.blend_strength, fin.smoothness, fin.symmetric),
                     blend_seams_fast(fin.image, fin.blend_strength, fin.smoothness),
                     t_values(half_blend, fin.smoothness),
                     calculate_blend_weights(half_blend, fin.smoothness)>>
    /\ UNCHANGED <<objVars, fin>>

SpecBlend == InitBlend /\ [][BlendCalled]_vars

(* SpecHit: two preview runs of one processor on one image, the parameters
   changed between them *)

\* load_image, line 77: the larger side of the preview image (the source is
\* taken square and at least this large).
max_dim == 256

\* _process_standard, lines 192-194, on the preview image:
\* int(max(10, min_dim // 20) * (0.5 + blend_strength * 0.5)).
SeamWidth(strength) == (MaxOf(10, max_dim \div 20) * (10000 + strength)) \div 20000

\* blend_seams_fast, lines 117-118, on the preview image.
PreviewBlendWidth(strength) == ((max_dim \div 4) * strength) \div 10000

\* The strategy a preview run calls and what it passes that decides the
\* result: grid size and rotation for splat (lines 171-180), the seam and
\* blend widths for standard (use_jit as __init__ leaves it, so that
\* symmetric_blending is not read).
PreviewCall(p) ==
    IF p.method = "splat"
    THEN [fn |-> "synthesis_splat", grid_size |-> IntOf(8 * p.splat_scale),
          rotation |-> p.splat_rotation]
    ELSE [fn |-> "standard", seam_width |-> SeamWidth(p.blend_strength),
          blend_width |-> PreviewBlendWidth(p.blend_strength)]

\* process(preview=True) with the image loaded, lines 108-136: the result
\* returned and the entries of the cache afterwards.
process_preview(p, entries) ==
    LET key == HashParams(GetCacheParams(p))
        result == PreviewCall(p)
    IN  IF key \in DOMAIN entries
        THEN [result |-> entries[key], entries |-> entries]
        ELSE [result |-> result,
              entries |-> [k \in DOMAIN entries \cup {key} |->
                              IF k = key THEN result ELSE entries[k]]]

\* process(preview=True) with the parameters a, set_parameters to b and
\* process(preview=True) again; and process(preview=True) with the parameters
\* b on a processor whose cache is empty.
PreviewsCalled ==
    /\ fout = <<>>
    /\ LET first == process_preview(fin.a, EmptyMap)
       IN  fout' = <<process_preview(fin.b, first.entries).result,
                     process_preview(fin.b, EmptyMap).result>>
    /\ UNCHANGED <<objVars, fin>>

SpecHit == InitKey /\ [][PreviewsCalled]_vars

----------------------------------------------------------------------------
(* Claims about ResultCache, checked under SpecCache *)

\* C3: a set that inserts a key not stored while the cache holds max_size
\* entries removes exactly one entry, the one whose latest insertion or get
\* hit is the oldest; any other set removes nothing; the key set is stored
\* afterwards.
C3_SetEvictsLeastRecentlyAccessed ==
    lastOp.op = "set" =>
        /\ lastOp.removed = lastOp.expected
        /\ Cardinality(lastOp.removed) <= 1
        /\ lastOp.key \in DOMAIN cache
        /\ lastOp.removed \cap DOMAIN cache = {}

\* A set has just evicted a key that is not the first inserted: a get hit
\* had refreshed the first inserted key.
C3_Witness ==
    /\ lastOp.op = "set"
    /\ lastOp.removed # {}
    /\ lastOp.removed # lastOp.fifo

\* What get(key) returns in the current state.
GetReturns(key) ==
    LET res == ResultCache_get(cache, access_order, heap, key, RetRef)
    IN  res.heap[CHOOSE r \in res.ret : TRUE]

\* C4: every key set and not evicted or cleared since is stored, and get
\* returns for it the contents the array had when it was last set, whatever
\* the caller has since written into that array or into an array get
\* returned.
C4_GetReturnsWhatWasSet ==
    /\ DOMAIN snapshot = DOMAIN cache
    /\ \A k \in DOMAIN snapshot : GetReturns(k) = snapshot[k]

\* A get has just hit a key whose array the caller overwrote after the set
\* (the caller passes ArgRef to every set), and returned the contents as set.
C4_Witness ==
    /\ lastOp.op = "hit"
    /\ lastOp.key \in DOMAIN snapshot
    /\ ArgRef \in held /\ heap[ArgRef] # snapshot[lastOp.key]
    /\ RetRef \in held /\ heap[RetRef] = snapshot[lastOp.key]

----------------------------------------------------------------------------
(* Claims about SeamlessProcessor.process, checked under Spec *)

\* The key of the processor's current image and parameters.
CurrentKey == CacheKey(get_cache_params(method), image_hash)

\* C1: a process call with a source image loaded returns; with preview and
\* the current key stored it returns the entry's contents, runs no strategy
\* and stores nothing; with preview and the key not stored it runs one
\* strategy on the preview image and stores the result under that key; without
\* preview it runs one strategy on the full image and makes no cache call.
C1_ProcessCacheContract ==
    LET f == fr[UiThread]
    IN  (f.pc = "done" /\ f.outcome # "-" /\ original_image # 0) =>
            /\ f.outcome = "returned"
            /\ (f.preview /\ f.had) =>
                   /\ f.runs = 0 /\ f.gets = 1 /\ f.sets = 0
                   /\ CurrentKey \in DOMAIN cache
                   /\ f.result = <<heap[cache[CurrentKey]]>>
            /\ (f.preview /\ ~f.had) =>
                   /\ f.runs = 1 /\ f.gets = 1 /\ f.sets = 1
                   /\ f.result[1].preview /\ f.result[1].image = preview_image
                   /\ preview_image = original_image
                   /\ f.result[1].method = method
                   /\ f.key = CurrentKey /\ f.skey = CurrentKey
                   /\ CurrentKey \in DOMAIN cache
                   /\ heap[cache[CurrentKey]] = f.result[1]
            /\ ~f.preview =>
                   /\ f.runs = 1 /\ f.gets = 0 /\ f.sets = 0
                   /\ ~f.result[1].preview /\ f.result[1].image = original_image
                   /\ f.result[1].method = method

\* A preview call has hit an entry that was computed with another strength
\* that rounds to the same key, while the cache is full.
C1_Witness ==
    LET f == fr[UiThread]
    IN  /\ f.pc = "done" /\ f.outcome = "returned"
        /\ f.preview /\ f.had /\ f.runs = 0
        /\ f.result[1].blend_strength # blend_strength
        /\ Cardinality(DOMAIN cache) = max_size

\* C2: a process call made with no image argument while no source image is
\* loaded raises, having made no cache call and run no strategy.
C2_NoImageRaises ==
    LET f == fr[UiThread]
    IN  (f.pc = "done" /\ f.noimg) =>
            /\ f.outcome = "raised"
            /\ f.gets = 0 /\ f.sets = 0 /\ f.runs = 0
            /\ f.result = <<>>

\* The call raised after a load that produced no image left the hash of the
\* image before it, with results of that image still cached.
C2_Witness ==
    LET f == fr[UiThread]
    IN  /\ f.pc = "done" /\ f.noimg /\ f.outcome = "raised"
        /\ f.preview
        /\ image_hash # 0 /\ DOMAIN cache # {}

----------------------------------------------------------------------------
(* Claims about the lanes, checked under SpecThreads *)

\* C6: whenever result_ready is emitted, the emitted result was computed for
\* the parameters of the most recent request made before the emission (a
\* request whose call had not returned when the result was emitted is not
\* held against the emission).
C6_NoStaleEmit ==
    emitted # <<>> => (emitted[1].trigger = emitted[1].latest \/ emitted[1].inflight)

\* C7: once the requests have been made and the worker has stopped, a result
\* computed for the last request's parameters has been emitted since that
\* request: no request is lost.
C7_LastRequestServed ==
    (wpc = "off" /\ fr[UiThread].pc = "idle" /\ reqs > 0) => served

\* The threads that run a synthesis strategy.
Lanes == Jobs \cup {PrevThread}

\* C8: every synthesis run reads, field for field, the parameter record of
\* the request that triggered it.
C8_RunReadsTriggerRecord ==
    \A t \in Lanes :
        fr[t].runs > 0 =>
            /\ fr[t].result[1].method = fr[t].trigger.method
            /\ fr[t].result[1].blend_strength = fr[t].trigger.blend_strength

\* The jobs that have finished: process returned or raised in run.
Finished == {j \in Jobs : job[j] \in {"returned", "raised"}}

\* C9: at most one ProcessingThread runs at a time, a job is started only
\* when every job created before it has run to its end, and every
\* _process_texture call that passed the image test has started its job by
\* the time it returns.
C9_OneFullJobAtATime ==
    /\ Cardinality({j \in Jobs : job[j] = "running"}) <= 1
    /\ \A j \in Jobs : job[j] # "new" => 1..(j - 1) \subseteq Finished
    /\ processing_thread <= fullreqs
    /\ fr[UiThread].pc = "idle" => processing_thread = fullreqs

\* A second job runs, started after the first returned.
C9_Witness ==
    /\ processing_thread = 2
    /\ job[2] = "running" /\ fr[2].runs = 1
    /\ job[1] = "returned"

\* C10: no two threads are inside ResultCache.get or ResultCache.set at the
\* same time.
C10_CacheCallsSerialized ==
    Cardinality(inCache) <= 1

\* The preview worker is inside a cache call while a full-resolution job is
\* running its strategy.
C10_Witness ==
    /\ PrevThread \in inCache
    /\ \E j \in Jobs : job[j] = "running" /\ fr[j].pc \in {"p_synth", "p_store"}

\* C11: a full-resolution request that waits for the job before it stops
\* waiting after a bounded time, whether or not that job finishes: the UI
\* thread always leaves the wait of _process_texture.
C11_WaitIsBounded ==
    (fr[UiThread].pc = "pt_wait") ~> (fr[UiThread].pc = "idle")

\* C12: the stored last result is empty or the result of a full-resolution
\* run on the current source image; a preview run never replaces it.
C12_ProcessedIsFullResolution ==
    processed_image # <<>> =>
        /\ ~processed_image[1].preview
        /\ processed_image[1].image = original_image

----------------------------------------------------------------------------
(* Claims about the pure functions *)

\* A parameter state with its fields rounded to 3 decimal places, 2 for the
\* patch scale.
RoundedFields(p) ==
    [method |-> p.method,
     blend_strength |-> Round3(p.blend_strength),
     symmetric_blending |-> p.symmetric_blending,
     splat_scale |-> Round2(p.splat_scale),
     splat_rotation |-> Round3(p.splat_rotation)]

\* C13: two parameter states have the same cache key if and only if every
\* field is equal after rounding.
C13_SameKeyIffSameRoundedFields ==
    fout # <<>> =>
        ((fout[1] = fout[2]) <=> (RoundedFields(fin.a) = RoundedFields(fin.b)))

\* C14: reverse_offset of offset_image with the same fractions is the image
\* it started from, pixel for pixel.
C14_ReverseOffsetRestores ==
    Len(fout) = 2 => fout[2] = fin.image

\* An image of odd height and width was shifted both ways, by amounts that
\* int() rounded down, and restored.
C14_Witness ==
    /\ Len(fout) = 2
    /\ fin.image.h = 3 /\ fin.image.w = 3
    /\ fin.offset_x = 5 /\ fin.offset_y = 7
    /\ fout[1] # fin.image
    /\ fout[2] = fin.image

\* round(n * f) for f in tenths, halves to the even neighbour.
RoundedShift(n, f) ==
    LET q == (n * f) \div Tenths
        r == (n * f) % Tenths
    IN  IF r > 5 \/ (r = 5 /\ q % 2 = 1) THEN q + 1 ELSE q

\* C15: offset_image moves the pixel at row r, column c to row
\* (r + round(fy*H)) mod H and column (c + round(fx*W)) mod W.
C15_OffsetMovesByRoundedShift ==
    Len(fout) >= 1 =>
        \A p \in Positions(fin.image.h, fin.image.w) :
            fout[1].px[<<(p[1] + RoundedShift(fin.image.h, fin.offset_y)) % fin.image.h,
                         (p[2] + RoundedShift(fin.image.w, fin.offset_x)) % fin.image.w>>]
                = fin.image.px[p]

\* C16: with overlap_x > 0 and overlap_y > 0 (and both strips at least one
\* pixel wide), the output of synthesis_overlap has its left column equal to
\* its right column and its top row equal to its bottom row.
C16_OverlapEdgesMatch ==
    (/\ fout # <<>>
     /\ fout[1].ok
     /\ BlendSize(fin.image.w, fin.overlap_x) > 0
     /\ BlendSize(fin.image.h, fin.overlap_y) > 0) =>
        /\ \A r \in 0..(fout[1].h - 1) : fout[1].px[<<r, 0>>] = fout[1].px[<<r, fout[1].w - 1>>]
        /\ \A c \in 0..(fout[1].w - 1) : fout[1].px[<<0, c>>] = fout[1].px[<<fout[1].h - 1, c>>]

\* C17: for overlap_x, overlap_y and falloff in [0, 1], 0 and 1 included,
\* synthesis_overlap returns an image of the width and height of its input.
C17_OverlapKeepsSize ==
    fout # <<>> =>
        /\ fout[1].ok
        /\ fout[1].h = fin.image.h
        /\ fout[1].w = fin.image.w

\* C18: for a placement made by the loop with a patch not larger than the
\* canvas, patch pixel (py, px) is composited onto canvas pixel
\* ((top + py) mod H, (left + px) mod W) and nowhere else, and no canvas
\* pixel is written twice by the same splat.
C18_SplatWrapsExactlyOnce ==
    fout # <<>> =>
        LET top == PlacementOf(fin.cy2, fin.ph)
            left == PlacementOf(fin.cx2, fin.pw)
        IN  /\ \A q \in Positions(fin.ph, fin.pw) :
                   \A p \in Positions(fin.target_h, fin.target_w) :
                       (\E i \in 1..Len(fout[1][p]) : fout[1][p][i] = q)
                           <=> p = <<(top + q[1]) % fin.target_h, (left + q[2]) % fin.target_w>>
            /\ \A p \in Positions(fin.target_h, fin.target_w) : Len(fout[1][p]) <= 1

\* A patch placed over the top left corner of the canvas was drawn in four
\* parts.
C18_Witness ==
    /\ fout # <<>>
    /\ PlacementOf(fin.cy2, fin.ph) < 0
    /\ PlacementOf(fin.cx2, fin.pw) < 0
    /\ fin.ph >= 2 /\ fin.pw >= 2
    /\ fout[1][<<fin.target_h - 1, fin.target_w - 1>>] = <<<<0, 0>>>>
    /\ Len(fout[1][<<0, 0>>]) = 1

\* C19: two calls of the splat synthesis with the same image, parameters and
\* random seed return the same output, whatever was called in between.
C19_SplatIsReproducible ==
    \A i, j \in DOMAIN fout :
        fout[i].params = fout[j].params => fout[i].out = fout[j].out

\* The first and the third call had the same image and parameters, the call
\* between them another image.
C19_Witness ==
    /\ Len(fout) = 3
    /\ fout[1].params = fout[3].params
    /\ fout[2].params.image # fout[1].params.image
    /\ fout[1].out = fout[3].out

\* C20: the random numbers of the placement are seeded by random_seed
\* (splat_randomize): two calls that differ in the seed alone differ in the
\* draw order, jitter or patch variants.
C20_SeedRerollsPlacement ==
    \A i, j \in DOMAIN fout :
        (/\ fout[i].params.splat_randomize # fout[j].params.splat_randomize
         /\ [fout[i].params EXCEPT !.splat_randomize = 0]
                = [fout[j].params EXCEPT !.splat_randomize = 0]) =>
            \/ fout[i].out.order # fout[j].out.order
            \/ fout[i].out.cells # fout[j].out.cells

----------------------------------------------------------------------------
(* Claims about the parameters, checked under SpecParams *)

\* The parameters that belong to a method (edge_falloff to overlap and splat
\* both).
OwnParams(m) ==
    IF m = "overlap" THEN {"overlap_x", "edge_falloff"}
    ELSE IF m = "splat" THEN {"splat_scale", "splat_rotation", "edge_falloff"}
    ELSE {"blend_strength", "symmetric_blending", "use_jit"}

\* C21: for one image and one method the result of process(preview=False) is
\* the same whenever the parameters of that method are the same, whatever the
\* parameters of the other methods are; and a set_parameters call given the
\* method alone leaves every other attribute as it was.
C21_OnlyOwnParamsCount ==
    /\ \A i, j \in DOMAIN fout :
           (/\ fout[i].op = "process" /\ fout[j].op = "process"
            /\ fout[i].result # <<>> /\ fout[j].result # <<>>
            /\ fout[i].after.original_image = fout[j].after.original_image
            /\ fout[i].after.method = fout[j].after.method
            /\ \A k \in OwnParams(fout[i].after.method) :
                   fout[i].after[k] = fout[j].after[k]) =>
               fout[i].result = fout[j].result
    /\ \A i \in DOMAIN fout :
           (fout[i].op = "set_parameters" /\ DOMAIN fout[i].kw = {"method"}) =>
               \A k \in DOMAIN ProcDefaults \ {"method"} : fout[i].after[k] = fout[i].before[k]

\* Two overlap runs on one image returned the same although blend_strength
\* was changed between them.
C21_Witness ==
    /\ Len(fout) = 3
    /\ fout[1].op = "process" /\ fout[1].outcome = "returned"
    /\ fout[1].after.method = "overlap"
    /\ fout[2].op = "set_parameters" /\ DOMAIN fout[2].kw = {"blend_strength"}
    /\ fout[2].after.blend_strength # fout[2].before.blend_strength
    /\ fout[3].op = "process" /\ fout[3].outcome = "returned"
    /\ fout[3].result = fout[1].result

\* The documented ranges: [0, 1] for blend_strength, overlap_x and
\* edge_falloff, [0, 360) for the rotation, a patch scale above 0.
InRange(p) ==
    /\ p.blend_strength \in 0..10000
    /\ p.overlap_x \in 0..10000
    /\ p.edge_falloff \in 0..10000
    /\ p.splat_rotation >= 0 /\ p.splat_rotation < 3600000
    /\ p.splat_scale > 0

\* C22: after set_parameters, or process with a params override, was given
\* numeric values, every stored parameter lies in its documented range, and
\* no call was rejected because of the values.
C22_StoredParamsInRange ==
    \A i \in DOMAIN fout :
        /\ InRange(fout[i].after)
        /\ fout[i].op = "set_parameters" => fout[i].outcome = "returned"

\* The seam-blend mode a blend call of the standard pipeline executes:
\* blend_seams_fast has the mirror mode only, blend_seams takes the soft mode
\* when symmetric is false (edge_blending.py, line 118).
SeamMode(call) ==
    IF call.fn = "blend_seams_fast" THEN "mirror"
    ELSE IF call.symmetric THEN "mirror" ELSE "soft"

\* C23: the standard pipeline runs the mirror mode when symmetric_blending is
\* true and the soft mode when it is false.
C23_SymmetricSelectsMode ==
    \A i \in DOMAIN fout :
        (/\ fout[i].op = "process" /\ fout[i].outcome = "returned"
         /\ fout[i].after.method = "standard") =>
            SeamMode(fout[i].result[1]) =
                (IF fout[i].after.symmetric_blending THEN "mirror" ELSE "soft")

\* C25: with a patch scale above 0 and the other splat parameters in range,
\* process with the splat method derives a grid size of at least 1 and
\* returns.
C25_SplatGridAtLeastOne ==
    \A i \in DOMAIN fout :
        (/\ fout[i].op = "process" /\ fout[i].result # <<>>
         /\ fout[i].after.method = "splat"
         /\ InRange(fout[i].after)) =>
            /\ fout[i].result[1].grid_size >= 1
            /\ fout[i].outcome = "returned"

\* C30: a process call that fails for want of an image leaves the processor,
\* every parameter included, as it was before the call.
C30_FailedProcessChangesNothing ==
    \A i \in DOMAIN fout :
        (fout[i].op = "process" /\ fout[i].outcome = "no image") =>
            fout[i].after = fout[i].before

----------------------------------------------------------------------------
(* Claims about the seam blending, checked under SpecBlend *)

\* C24: when int((min(H, W) // 4) * blend_strength) is less than 2,
\* blend_seams (in either mode) and blend_seams_fast return the input, pixel
\* for pixel.
C24_NarrowBandIsNoOp ==
    (/\ fout # <<>>
     /\ ((MinOf(fin.image.h, fin.image.w) \div 4) * fin.blend_strength) \div Tenths < 2) =>
        /\ fout[1] = fin.image
        /\ fout[2] = fin.image

\* A strength above 0 on an 8 x 8 image gave a band of width 1 in the soft
\* mode, and both functions returned the input.
C24_Witness ==
    /\ fout # <<>>
    /\ fin.image.h = 8 /\ fin.image.w = 8
    /\ fin.blend_strength = 5 /\ ~fin.symmetric
    /\ fout[1] = fin.image /\ fout[2] = fin.image

\* a >= b for fractions with positive denominators.
FractionGeq(a, b) == a[1] * b[2] >= b[1] * a[2]

\* C28: in mirror mode the weight of the mirrored column grows towards the
\* seam: weight(o1) >= weight(o2) for offsets o1 < o2, in blend_seams and in
\* blend_seams_fast.
C28_WeightGrowsTowardsSeam ==
    fout # <<>> =>
        \A o1, o2 \in DOMAIN fout[3] :
            o1 < o2 => /\ FractionGeq(fout[3][o1], fout[3][o2])
                       /\ FractionGeq(fout[4][o1], fout[4][o2])

\* C29: blend_seams_fast returns what blend_seams returns with
\* symmetric=True, pixel for pixel.
C29_FastEqualsMirror ==
    (fout # <<>> /\ fin.symmetric) => fout[2] = fout[1]

----------------------------------------------------------------------------
(* More claims about the lanes, checked under SpecThreads *)

\* C27: whatever set_parameters and load_image calls other threads make
\* during a preview run, the entry the run stores is stored under the key it
\* looked up before the synthesis, the key of the image and the parameters the
\* result was computed from.
C27_StoredUnderKeyLookedUp ==
    LET f == fr[PrevThread]
    IN  f.sets > 0 =>
            /\ f.skey = f.key
            /\ f.skey = CacheKey([method |-> f.result[1].method,
                                  blend_strength |-> Round3(f.result[1].blend_strength)],
                                 hash_image(f.result[1].image))

----------------------------------------------------------------------------
(* Claims about the preview cache, checked under SpecHit *)

\* C26: in single-threaded use a preview run returns what the same run
\* returns on a processor whose cache is empty: a hit is never different from
\* recomputing with the current image and parameters.
C26_CacheIsTransparent ==
    fout # <<>> => fout[1] = fout[2]

====
